---- MODULE Spec2Model ----
(***************************************************************************)
(* pest_railroad: the transformation of a pest grammar's parse tree into a *)
(* railroad diagram (railroad/src/lib.rs).                                 *)
(*                                                                         *)
(* generate_diagram, make_rule, make_expr and make_repeat each iterate     *)
(* over the pairs the pest parser hands them.  The model runs those loops  *)
(* one pair at a time: every match arm is an action, the recursion of      *)
(* make_expr is an explicit stack of activation records, and the pairs are *)
(* supplied by the parser one by one, in the order the grammar allows.     *)
(***************************************************************************)
EXTENDS Integers, Sequences, FiniteSets

\* Size of the grammars explored: the number of pairs in the parse tree that
\* are not wrappers or delimiters (see Wrappers).
MaxSymbols == 5

(***************************************************************************)
(* Texts.  A text is a sequence of pieces, so that push_str and format!    *)
(* are concatenation.                                                      *)
(***************************************************************************)
Digits == <<"0", "1", "2", "3", "4", "5", "6", "7", "8", "9">>

DigitValue(c) == (CHOOSE i \in 1..10 : Digits[i] = c) - 1

\* The matched text of a pair whose text the engine reads.
IdentifierText == <<"a">>
LineDocText == <<"/// doc">>
TerminalTexts ==
    [string |-> <<"\"x\"">>,
     insensitive_string |-> <<"^\"x\"">>,
     range |-> <<"'0'..'9'">>]

\* The digit strings the number rule matches in the grammars explored:
\* 0, 2, 03, u32::MAX and u32::MAX + 1.
NumberTexts ==
    { <<"0">>, <<"2">>, <<"0", "3">>,
      <<"4", "2", "9", "4", "9", "6", "7", "2", "9", "5">>,
      <<"4", "2", "9", "4", "9", "6", "7", "2", "9", "6">> }

(***************************************************************************)
(* u32.  A value is kept as two 16-bit halves, value = hi * 2^16 + lo.     *)
(***************************************************************************)
Half == 2 ^ 16

U32(h, l) == [hi |-> h, lo |-> l]

U32_ZERO == U32(0, 0)

U32_MAX == U32(Half - 1, Half - 1)

\* Option<T>
None == [some |-> FALSE]

Some(v) == [some |-> TRUE, val |-> v]

\* str::parse::<u32>() on a string of decimal digits: Some(value), or None
\* for the Err that expect("number") turns into a panic.
RECURSIVE ParseFrom(_, _, _)
ParseFrom(s, i, acc) ==
    IF i > Len(s) THEN Some(acc)
    ELSE LET lo2 == acc.lo * 10 + DigitValue(s[i])
             hi2 == acc.hi * 10 + (lo2 \div Half)
         IN  IF hi2 >= Half THEN None
             ELSE ParseFrom(s, i + 1, U32(hi2, lo2 % Half))

ParseU32(s) == IF s = <<>> THEN None ELSE ParseFrom(s, 1, U32_ZERO)

\* Display for u32, as format!("{min}") uses it: decimal, no leading zeros.
RECURSIVE FormatU32(_)
FormatU32(v) ==
    LET t == (v.hi % 10) * Half + v.lo
        q == U32(v.hi \div 10, t \div 10)
    IN  IF v.hi = 0 /\ v.lo < 10 THEN <<Digits[v.lo + 1]>>
        ELSE FormatU32(q) \o <<Digits[(t % 10) + 1]>>

(***************************************************************************)
(* Diagram nodes (the railroad crate's constructors).                      *)
(***************************************************************************)
Terminal(t) == [node |-> "Terminal", label |-> t]

NonTerminal(t) == [node |-> "NonTerminal", label |-> t]

Comment(t) == [node |-> "Comment", text |-> t]

Empty == [node |-> "Empty"]

SimpleStart == [node |-> "SimpleStart"]

SimpleEnd == [node |-> "SimpleEnd"]

Sequence(c) == [node |-> "Sequence", children |-> c]

Choice(c) == [node |-> "Choice", children |-> c]

VerticalGrid(c) == [node |-> "VerticalGrid", children |-> c]

Optional(n) == [node |-> "Optional", inner |-> n]

Repeat(n, r) == [node |-> "Repeat", inner |-> n, repeat |-> r]

LabeledBox(n, l) == [node |-> "LabeledBox", inner |-> n, caption |-> l]

\* Diagram::with_default_css(root)
Diagram(root) == [node |-> "Diagram", root |-> root]

(***************************************************************************)
(* Pairs.  A pair carries its rule and its matched text (as_str); the text *)
(* is kept only where the engine reads it.                                 *)
(***************************************************************************)
Pair(r) == [rule |-> r, str |-> <<>>]

PairStr(r, s) == [rule |-> r, str |-> s]

\* The last rule of a list of rules, "" for the empty list.
Last(s) == IF s = <<>> THEN "" ELSE s[Len(s)]

ModifierRules ==
    {"silent_modifier", "atomic_modifier", "compound_atomic_modifier",
     "non_atomic_modifier"}

TerminalRules == {"string", "insensitive_string", "range"}

\* Rules a term may hold that make_expr has no arm for.
UnsupportedRules == {"_push", "peek_slice"}

PrefixRules == {"positive_predicate_operator", "negative_predicate_operator"}

RepeatRules == {"repeat_exact", "repeat_min", "repeat_max", "repeat_min_max"}

\* The children of each bounded-repeat rule, in order.
RepeatChildren ==
    [repeat_exact |-> <<"opening_brace", "number", "closing_brace">>,
     repeat_min |-> <<"opening_brace", "number", "comma", "closing_brace">>,
     repeat_max |-> <<"opening_brace", "comma", "number", "closing_brace">>,
     repeat_min_max |->
        <<"opening_brace", "number", "comma", "number", "closing_brace">>]

\* A bounded-repeat node the grammar cannot produce: no number at all.
ForbiddenRepeatChildren == <<"opening_brace", "closing_brace">>

\* Where the term loop stands in  prefix* node postfix*,  node being a
\* terminal or  opening_paren expression closing_paren.
TermPhase(tp) ==
    IF tp = <<>> \/ Last(tp) \in PrefixRules THEN "prefix"
    ELSE IF Last(tp) = "opening_paren" THEN "inner"
    ELSE IF Last(tp) = "expression" THEN "close"
    ELSE "postfix"

\* Number of elements of s that are in set S.
RECURSIVE Count(_, _)
Count(s, S) ==
    IF s = <<>> THEN 0
    ELSE (IF Last(s) \in S THEN 1 ELSE 0) + Count(SubSeq(s, 1, Len(s) - 1), S)

(***************************************************************************)
(* State.                                                                  *)
(***************************************************************************)
VARIABLES
    pc,                \* the loop that is running: "generate_diagram",
                       \* "make_rule", "make_expr", "term", "make_repeat";
                       \* "done" after Ok(..), "panic" after a panic
    input,             \* every pair handed to the engine so far, in order
    generate_diagram,  \* locals of generate_diagram
    make_rule,         \* locals of the running make_rule call
    make_expr,         \* stack of the locals of the running make_expr calls
    make_repeat,       \* locals of the running make_repeat call
    result             \* what generate_diagram returned

vars ==
    <<pc, input, generate_diagram, make_rule, make_expr, make_repeat, result>>

NoCall == [called |-> FALSE]

Init ==
    /\ pc = "generate_diagram"
    /\ input = <<>>
    /\ generate_diagram =
           [pairs |-> <<>>, nodes |-> <<>>, unsupported_warnings |-> <<>>]
    /\ make_rule = NoCall
    /\ make_expr = <<>>
    /\ make_repeat = NoCall
    /\ result = None

\* Pairs that only wrap or delimit: where one is due, the grammar allows
\* nothing else.
Wrappers ==
    {"grammar_rule", "assignment_operator", "opening_brace", "closing_brace",
     "expression", "term", "closing_paren", "comma", "EOI"}

RECURSIVE Size(_)
Size(ps) ==
    IF ps = <<>> THEN 0
    ELSE (IF ps[Len(ps)].rule \in Wrappers THEN 0 ELSE 1)
             + Size(SubSeq(ps, 1, Len(ps) - 1))

\* The parser hands over the pairs ps.
Consume(ps) ==
    /\ Size(input) + Size(ps) <= MaxSymbols
    /\ input' = input \o ps

Top == make_expr[Len(make_expr)]

SetTop(f) == [make_expr EXCEPT ![Len(make_expr)] = f]

(***************************************************************************)
(* generate_diagram: the loop over the top-level pairs,                    *)
(*     grammar_doc* grammar_rule+ EOI.                                     *)
(***************************************************************************)
\* Rule::grammar_doc: no op.
GrammarDoc ==
    /\ pc = "generate_diagram"
    /\ \A i \in 1..Len(generate_diagram.pairs) :
           generate_diagram.pairs[i] = "grammar_doc"
    /\ Consume(<<Pair("grammar_doc")>>)
    /\ generate_diagram' =
           [generate_diagram EXCEPT !.pairs = Append(@, "grammar_doc")]
    /\ UNCHANGED <<pc, make_rule, make_expr, make_repeat, result>>

\* Rule::grammar_rule whose first pair is a line_doc.
GrammarRuleLineDoc ==
    /\ pc = "generate_diagram"
    /\ "EOI" \notin {generate_diagram.pairs[i] :
                        i \in 1..Len(generate_diagram.pairs)}
    /\ Consume(<<Pair("grammar_rule"), PairStr("line_doc", LineDocText)>>)
    /\ generate_diagram' =
           [generate_diagram EXCEPT
               !.pairs = Append(@, "grammar_rule"),
               !.nodes = Append(@, Comment(LineDocText))]
    /\ UNCHANGED <<pc, make_rule, make_expr, make_repeat, result>>

\* Rule::grammar_rule whose first pair is an identifier: make_rule is called
\* with the rest of the rule's pairs.
GrammarRuleIdentifier ==
    /\ pc = "generate_diagram"
    /\ "EOI" \notin {generate_diagram.pairs[i] :
                        i \in 1..Len(generate_diagram.pairs)}
    /\ Consume(<<Pair("grammar_rule"), PairStr("identifier", IdentifierText)>>)
    /\ generate_diagram' =
           [generate_diagram EXCEPT !.pairs = Append(@, "grammar_rule")]
    /\ make_rule' =
           [called |-> TRUE,
            pairs |-> <<>>,
            unsupported_warnings |-> <<>>,
            grid |-> <<>>,
            seq |-> <<>>,
            rule_ident |-> IdentifierText]
    /\ pc' = "make_rule"
    /\ UNCHANGED <<make_expr, make_repeat, result>>

\* Rule::EOI: no op.
EndOfInput ==
    /\ pc = "generate_diagram"
    /\ generate_diagram.pairs # <<>>
    /\ Last(generate_diagram.pairs) = "grammar_rule"
    /\ Consume(<<Pair("EOI")>>)
    /\ generate_diagram' = [generate_diagram EXCEPT !.pairs = Append(@, "EOI")]
    /\ UNCHANGED <<pc, make_rule, make_expr, make_repeat, result>>

\* The pairs are exhausted: the root grid and the diagram are built.
GenerateDiagramReturn ==
    /\ pc = "generate_diagram"
    /\ generate_diagram.pairs # <<>>
    /\ Last(generate_diagram.pairs) = "EOI"
    /\ result' =
           Some([diagram |-> Diagram(VerticalGrid(generate_diagram.nodes)),
                 warnings |-> generate_diagram.unsupported_warnings])
    /\ pc' = "done"
    /\ UNCHANGED <<input, generate_diagram, make_rule, make_expr, make_repeat>>

(***************************************************************************)
(* make_rule: the loop over the pairs of a rule after its identifier,      *)
(*     assignment_operator modifier? opening_brace expression closing_brace*)
(***************************************************************************)
\* What each modifier arm pushes onto rule_ident.
ModifierTag(r) ==
    CASE r = "silent_modifier" -> <<" (silent)">>
      [] r = "atomic_modifier" -> <<" (atomic)">>
      [] r = "compound_atomic_modifier" -> <<" (compound atomic)">>
      [] r = "non_atomic_modifier" -> <<" (non-atomic)">>

\* Rule::assignment_operator: no op.
RuleAssignmentOperator ==
    /\ pc = "make_rule"
    /\ make_rule.pairs = <<>>
    /\ Consume(<<Pair("assignment_operator")>>)
    /\ make_rule' = [make_rule EXCEPT !.pairs = Append(@, "assignment_operator")]
    /\ UNCHANGED <<pc, generate_diagram, make_expr, make_repeat, result>>

\* Rule::silent_modifier, atomic_modifier, compound_atomic_modifier,
\* non_atomic_modifier.
RuleModifier ==
    /\ pc = "make_rule"
    /\ make_rule.pairs = <<"assignment_operator">>
    /\ \E r \in ModifierRules :
          /\ Consume(<<Pair(r)>>)
          /\ make_rule' =
                 [make_rule EXCEPT
                     !.pairs = Append(@, r),
                     !.rule_ident = @ \o ModifierTag(r)]
    /\ UNCHANGED <<pc, generate_diagram, make_expr, make_repeat, result>>

\* Rule::opening_brace: the name goes on the grid, the sequence starts.
RuleOpeningBrace ==
    /\ pc = "make_rule"
    /\ make_rule.pairs # <<>>
    /\ Last(make_rule.pairs) \in {"assignment_operator"} \cup ModifierRules
    /\ Consume(<<Pair("opening_brace")>>)
    /\ make_rule' =
           [make_rule EXCEPT
               !.pairs = Append(@, "opening_brace"),
               !.grid = Append(@, Comment(make_rule.rule_ident)),
               !.rule_ident = <<>>,
               !.seq = Append(@, SimpleStart)]
    /\ UNCHANGED <<pc, generate_diagram, make_expr, make_repeat, result>>

\* The locals of a make_expr call, and of the term it is working on.
NewExpr ==
    [pairs |-> <<>>,
     unsupported_warnings |-> <<>>,
     choices |-> <<>>,
     curr_choice |-> <<>>,
     term_pairs |-> <<>>,
     term |-> None,
     positive_lookahead |-> 0,
     negative_lookahead |-> 0]

\* Rule::expression: make_expr is called on the expression's pairs.
RuleExpression ==
    /\ pc = "make_rule"
    /\ make_rule.pairs # <<>>
    /\ Last(make_rule.pairs) = "opening_brace"
    /\ Consume(<<Pair("expression")>>)
    /\ make_rule' = [make_rule EXCEPT !.pairs = Append(@, "expression")]
    /\ make_expr' = <<NewExpr>>
    /\ pc' = "make_expr"
    /\ UNCHANGED <<generate_diagram, make_repeat, result>>

\* Rule::closing_brace
RuleClosingBrace ==
    /\ pc = "make_rule"
    /\ make_rule.pairs # <<>>
    /\ Last(make_rule.pairs) = "expression"
    /\ Consume(<<Pair("closing_brace")>>)
    /\ make_rule' =
           [make_rule EXCEPT
               !.pairs = Append(@, "closing_brace"),
               !.seq = Append(@, SimpleEnd)]
    /\ UNCHANGED <<pc, generate_diagram, make_expr, make_repeat, result>>

\* MakeRuleResult with the sequence's nodes put on the grid one by one.
MakeRuleResultUnwrapped(r) ==
    [node |-> VerticalGrid(r.grid \o r.seq),
     warnings |-> r.unsupported_warnings]

\* What make_rule returns once its pairs are exhausted.
MakeRuleResult(r) ==
    [node |-> VerticalGrid(Append(r.grid, Sequence(r.seq))),
     warnings |-> r.unsupported_warnings]

\* make_rule returns; generate_diagram takes the warnings and the node.
MakeRuleReturn ==
    /\ pc = "make_rule"
    /\ make_rule.pairs # <<>>
    /\ Last(make_rule.pairs) = "closing_brace"
    /\ generate_diagram' =
           [generate_diagram EXCEPT
               !.unsupported_warnings = @ \o MakeRuleResult(make_rule).warnings,
               !.nodes = Append(@, MakeRuleResult(make_rule).node)]
    /\ make_rule' = NoCall
    /\ pc' = "generate_diagram"
    /\ UNCHANGED <<input, make_expr, make_repeat, result>>

(***************************************************************************)
(* make_expr: the loop over the pairs of an expression,                    *)
(*     choice_operator? term (infix_operator term)*                        *)
(***************************************************************************)
\* Rule::term: the term's locals are initialised and its pairs are walked.
ExprTerm ==
    /\ pc = "make_expr"
    /\ Top.pairs = <<>> \/ Last(Top.pairs) \in {"sequence_operator", "choice_operator"}
    /\ Consume(<<Pair("term")>>)
    /\ make_expr' =
           SetTop([Top EXCEPT
               !.pairs = Append(@, "term"),
               !.term_pairs = <<>>,
               !.term = None,
               !.positive_lookahead = 0,
               !.negative_lookahead = 0])
    /\ pc' = "term"
    /\ UNCHANGED <<generate_diagram, make_rule, make_repeat, result>>

\* Rule::sequence_operator: no op.
ExprSequenceOperator ==
    /\ pc = "make_expr"
    /\ Top.pairs # <<>>
    /\ Last(Top.pairs) = "term"
    /\ Consume(<<Pair("sequence_operator")>>)
    /\ make_expr' = SetTop([Top EXCEPT !.pairs = Append(@, "sequence_operator")])
    /\ UNCHANGED <<pc, generate_diagram, make_rule, make_repeat, result>>

\* Rule::choice_operator: choices.push(mem::take(&mut curr_choice)).
ExprChoiceOperator ==
    /\ pc = "make_expr"
    /\ Top.pairs = <<>> \/ Last(Top.pairs) = "term"
    /\ Consume(<<Pair("choice_operator")>>)
    /\ make_expr' =
           SetTop([Top EXCEPT
               !.pairs = Append(@, "choice_operator"),
               !.choices = Append(@, Top.curr_choice),
               !.curr_choice = <<>>])
    /\ UNCHANGED <<pc, generate_diagram, make_rule, make_repeat, result>>

\* "Ensure that the last sequence is stored"
StoreLast(choices, curr_choice) ==
    IF curr_choice # <<>> THEN Append(choices, curr_choice) ELSE choices

\* Flatten without the arm for a single element.
FlattenNoSingle(seq) == IF Len(seq) = 0 THEN Empty ELSE Sequence(seq)

\* The custom flatten of one choice.
Flatten(seq) ==
    IF Len(seq) = 0 THEN Empty
    ELSE IF Len(seq) = 1 THEN seq[1]
    ELSE Sequence(seq)

\* "If we only have one choice, return it directly"
Combine(choices) ==
    IF Len(choices) = 1 THEN choices[1] ELSE Choice(choices)

\* What make_expr returns once its pairs are exhausted.
MakeExprResult(f) ==
    LET stored == StoreLast(f.choices, f.curr_choice)
    IN  [node |-> Combine([i \in 1..Len(stored) |-> Flatten(stored[i])]),
         warnings |-> f.unsupported_warnings]

\* make_expr returns to make_rule (Rule::expression of make_rule) or to the
\* term of the enclosing make_expr (Rule::expression of the term loop).
MakeExprReturn ==
    /\ pc = "make_expr"
    /\ Top.pairs # <<>>
    /\ Last(Top.pairs) = "term"
    /\ LET r == MakeExprResult(Top)
           n == Len(make_expr)
       IN  IF n = 1
           THEN /\ make_rule' =
                       [make_rule EXCEPT
                           !.unsupported_warnings = @ \o r.warnings,
                           !.seq = Append(@, r.node)]
                /\ make_expr' = <<>>
                /\ pc' = "make_rule"
           ELSE /\ make_expr' =
                       [SubSeq(make_expr, 1, n - 1) EXCEPT
                           ![n - 1].unsupported_warnings = @ \o r.warnings,
                           ![n - 1].term = Some(r.node)]
                /\ pc' = "term"
                /\ UNCHANGED make_rule
    /\ UNCHANGED <<input, generate_diagram, make_repeat, result>>

(***************************************************************************)
(* The loop over the pairs of a term,  prefix_operator* node postfix*.     *)
(***************************************************************************)
TermConsume(r, f) ==
    /\ Consume(<<r>>)
    /\ make_expr' = SetTop([f EXCEPT !.term_pairs = Append(@, r.rule)])

\* Rule::identifier
TermIdentifier ==
    /\ pc = "term"
    /\ TermPhase(Top.term_pairs) = "prefix"
    /\ TermConsume(PairStr("identifier", IdentifierText),
                   [Top EXCEPT !.term = Some(NonTerminal(IdentifierText))])
    /\ UNCHANGED <<pc, generate_diagram, make_rule, make_repeat, result>>

\* Rule::string | Rule::insensitive_string | Rule::range
TermTerminal ==
    /\ pc = "term"
    /\ TermPhase(Top.term_pairs) = "prefix"
    /\ \E r \in TerminalRules :
          TermConsume(PairStr(r, TerminalTexts[r]),
                      [Top EXCEPT !.term = Some(Terminal(TerminalTexts[r]))])
    /\ UNCHANGED <<pc, generate_diagram, make_rule, make_repeat, result>>

\* Rule::opening_paren: no op.
TermOpeningParen ==
    /\ pc = "term"
    /\ TermPhase(Top.term_pairs) = "prefix"
    /\ TermConsume(Pair("opening_paren"), Top)
    /\ UNCHANGED <<pc, generate_diagram, make_rule, make_repeat, result>>

\* Rule::closing_paren: no op.
TermClosingParen ==
    /\ pc = "term"
    /\ TermPhase(Top.term_pairs) = "close"
    /\ TermConsume(Pair("closing_paren"), Top)
    /\ UNCHANGED <<pc, generate_diagram, make_rule, make_repeat, result>>

\* Rule::expression: make_expr is called on the inner expression.
TermExpression ==
    /\ pc = "term"
    /\ TermPhase(Top.term_pairs) = "inner"
    /\ Consume(<<Pair("expression")>>)
    /\ make_expr' =
           Append(SetTop([Top EXCEPT !.term_pairs = Append(@, "expression")]),
                  NewExpr)
    /\ pc' = "make_expr"
    /\ UNCHANGED <<generate_diagram, make_rule, make_repeat, result>>

\* RepeatOperator without the test for a term: a missing term is wrapped as
\* Empty.
RepeatOperatorUnguarded(term) ==
    Some(Choice(<<Empty, Repeat(IF term.some THEN term.val ELSE Empty, Empty)>>))

\* The postfix operators: the term is wrapped if there is one ("Term would
\* only not be populated if an unsupported rule was encountered").
RepeatOperator(term) ==
    IF term.some
    THEN Some(Choice(<<Empty, Repeat(term.val, Empty)>>))
    ELSE term

RepeatOnceOperator(term) ==
    IF term.some THEN Some(Repeat(term.val, Empty)) ELSE term

OptionalOperator(term) ==
    IF term.some THEN Some(Optional(term.val)) ELSE term

\* Rule::repeat_operator
TermRepeatOperator ==
    /\ pc = "term"
    /\ TermPhase(Top.term_pairs) = "postfix"
    /\ TermConsume(Pair("repeat_operator"),
                   [Top EXCEPT !.term = RepeatOperator(@)])
    /\ UNCHANGED <<pc, generate_diagram, make_rule, make_repeat, result>>

\* Rule::repeat_once_operator
TermRepeatOnceOperator ==
    /\ pc = "term"
    /\ TermPhase(Top.term_pairs) = "postfix"
    /\ TermConsume(Pair("repeat_once_operator"),
                   [Top EXCEPT !.term = RepeatOnceOperator(@)])
    /\ UNCHANGED <<pc, generate_diagram, make_rule, make_repeat, result>>

\* Rule::optional_operator
TermOptionalOperator ==
    /\ pc = "term"
    /\ TermPhase(Top.term_pairs) = "postfix"
    /\ TermConsume(Pair("optional_operator"),
                   [Top EXCEPT !.term = OptionalOperator(@)])
    /\ UNCHANGED <<pc, generate_diagram, make_rule, make_repeat, result>>

\* Rule::positive_predicate_operator
TermPositivePredicate ==
    /\ pc = "term"
    /\ TermPhase(Top.term_pairs) = "prefix"
    /\ TermConsume(Pair("positive_predicate_operator"),
                   [Top EXCEPT !.positive_lookahead = @ + 1])
    /\ UNCHANGED <<pc, generate_diagram, make_rule, make_repeat, result>>

\* Rule::negative_predicate_operator
TermNegativePredicate ==
    /\ pc = "term"
    /\ TermPhase(Top.term_pairs) = "prefix"
    /\ TermConsume(Pair("negative_predicate_operator"),
                   [Top EXCEPT !.negative_lookahead = @ + 1])
    /\ UNCHANGED <<pc, generate_diagram, make_rule, make_repeat, result>>

\* The locals of a make_repeat call on a node with the given children.
NewRepeat(children, old_term) ==
    [called |-> TRUE,
     children |-> children,
     pairs |-> <<>>,
     old_term |-> old_term,
     comma_seen |-> FALSE,
     min_repeat |-> None,
     max_repeat |-> None]

\* Rule::repeat_exact | repeat_min | repeat_max | repeat_min_max, the node
\* having the given children: make_repeat is called if there is a term.
RepeatNode(r, children) ==
    /\ pc = "term"
    /\ TermPhase(Top.term_pairs) = "postfix"
    /\ TermConsume(Pair(r), Top)
    /\ IF Top.term.some
       THEN /\ make_repeat' = NewRepeat(children, Top.term.val)
            /\ pc' = "make_repeat"
       ELSE UNCHANGED <<pc, make_repeat>>
    /\ UNCHANGED <<generate_diagram, make_rule, result>>

TermRepeat == \E r \in RepeatRules : RepeatNode(r, RepeatChildren[r])

\* The catch-all arm: a warning naming the rule.
UnsupportedWarning(r) == <<"### Unsupported rule in term: ", r, " ###">>

TermUnsupported ==
    /\ pc = "term"
    /\ TermPhase(Top.term_pairs) = "prefix"
    /\ \E r \in UnsupportedRules :
          TermConsume(Pair(r),
                      [Top EXCEPT
                          !.unsupported_warnings = Append(@, UnsupportedWarning(r))])
    /\ UNCHANGED <<pc, generate_diagram, make_rule, make_repeat, result>>

\* Lookahead without the parity tests.
LookaheadAnyCount(term, positive_lookahead, negative_lookahead) ==
    IF negative_lookahead > 0
    THEN LabeledBox(term, Comment(<<"Lookahead: Can't match">>))
    ELSE IF positive_lookahead > 0
    THEN LabeledBox(term, Comment(<<"Lookahead: Must match">>))
    ELSE term

\* The lookahead box put around a built term.
Lookahead(term, positive_lookahead, negative_lookahead) ==
    IF negative_lookahead > 0 /\ negative_lookahead % 2 # 0
    THEN LabeledBox(term, Comment(<<"Lookahead: Can't match">>))
    ELSE IF positive_lookahead > 0 /\ positive_lookahead % 2 # 0
    THEN LabeledBox(term, Comment(<<"Lookahead: Must match">>))
    ELSE term

\* The term's pairs are exhausted: a built term goes onto curr_choice.
EndTerm ==
    /\ pc = "term"
    /\ make_expr' =
           SetTop([Top EXCEPT
               !.curr_choice =
                   IF Top.term.some
                   THEN Append(@, Lookahead(Top.term.val,
                                            Top.positive_lookahead,
                                            Top.negative_lookahead))
                   ELSE @,
               !.term_pairs = <<>>,
               !.term = None,
               !.positive_lookahead = 0,
               !.negative_lookahead = 0])
    /\ pc' = "make_expr"
    /\ UNCHANGED <<input, generate_diagram, make_rule, make_repeat, result>>

TermEnd ==
    /\ pc = "term"
    /\ TermPhase(Top.term_pairs) = "postfix"
    /\ EndTerm

(***************************************************************************)
(* make_repeat: the loop over the children of a bounded-repeat node.       *)
(***************************************************************************)
\* The rule of the next child, "" when the children are exhausted.
NextChild ==
    IF Len(make_repeat.pairs) < Len(make_repeat.children)
    THEN make_repeat.children[Len(make_repeat.pairs) + 1]
    ELSE ""

RepeatConsume(r, m) ==
    /\ Consume(<<r>>)
    /\ make_repeat' = [m EXCEPT !.pairs = Append(@, r)]

\* Rule::opening_brace: no op.
RepeatOpeningBrace ==
    /\ pc = "make_repeat"
    /\ NextChild = "opening_brace"
    /\ RepeatConsume(Pair("opening_brace"), make_repeat)
    /\ UNCHANGED <<pc, generate_diagram, make_rule, make_expr, result>>

\* ClosingBrace with the maximum of {n,} copied from the minimum, as in the
\* arm without a comma.
ClosingBraceCopiesMin(m) ==
    IF ~m.comma_seen
    THEN [m EXCEPT !.max_repeat = m.min_repeat]
    ELSE [m EXCEPT
             !.min_repeat = IF ~@.some THEN Some(U32_ZERO) ELSE @,
             !.max_repeat = IF ~@.some THEN m.min_repeat ELSE @]

\* Rule::closing_brace, with and without a comma seen.
ClosingBrace(m) ==
    IF ~m.comma_seen
    THEN [m EXCEPT !.max_repeat = m.min_repeat]
    ELSE [m EXCEPT
             !.min_repeat = IF ~@.some THEN Some(U32_ZERO) ELSE @,
             !.max_repeat = IF ~@.some THEN Some(U32_MAX) ELSE @]

RepeatClosingBrace ==
    /\ pc = "make_repeat"
    /\ NextChild = "closing_brace"
    /\ RepeatConsume(Pair("closing_brace"), ClosingBrace(make_repeat))
    /\ UNCHANGED <<pc, generate_diagram, make_rule, make_expr, result>>

\* Rule::number, the text parsing to Some(v): kept as max or as min.
Number(m, v) ==
    IF m.comma_seen
    THEN [m EXCEPT !.max_repeat = v]
    ELSE [m EXCEPT !.min_repeat = v]

\* Rule::number: parse().expect("number") panics when the text is no u32.
RepeatNumber ==
    /\ pc = "make_repeat"
    /\ NextChild = "number"
    /\ \E s \in NumberTexts :
          IF ParseU32(s).some
          THEN /\ RepeatConsume(PairStr("number", s),
                                Number(make_repeat, ParseU32(s)))
               /\ UNCHANGED pc
          ELSE /\ RepeatConsume(PairStr("number", s), make_repeat)
               /\ pc' = "panic"
    /\ UNCHANGED <<generate_diagram, make_rule, make_expr, result>>

\* Rule::comma
RepeatComma ==
    /\ pc = "make_repeat"
    /\ NextChild = "comma"
    /\ RepeatConsume(Pair("comma"), [make_repeat EXCEPT !.comma_seen = TRUE])
    /\ UNCHANGED <<pc, generate_diagram, make_rule, make_expr, result>>

\* RepeatShape without the bypass of a zero minimum.
RepeatShapeNoBypass(min, old_term) == Repeat(old_term, Empty)

\* "Figure out whether repeat should show that node must be traversed or not"
RepeatShape(min, old_term) ==
    IF min # U32_ZERO
    THEN Repeat(old_term, Empty)
    ELSE Choice(<<Empty, Repeat(old_term, Empty)>>)

RepeatLabel(min, max) ==
    IF min = max
    THEN <<"Repeat ">> \o FormatU32(min) \o <<" time(s)">>
    ELSE IF max = U32_MAX
    THEN <<"Repeat ">> \o FormatU32(min) \o <<" or more times">>
    ELSE IF min = U32_ZERO
    THEN <<"Repeat at most ">> \o FormatU32(max) \o <<" time(s)">>
    ELSE <<"Repeat between ">> \o FormatU32(min) \o <<" and ">>
             \o FormatU32(max) \o <<" time(s)">>

\* The (Some(min), Some(max)) arm of the final match.
MakeRepeatResult(min, max, old_term) ==
    LabeledBox(RepeatShape(min, old_term), Comment(RepeatLabel(min, max)))

\* MakeRepeatReturn with the term left as it was, instead of the panic, when
\* a bound is not set.
MakeRepeatReturnLenient ==
    /\ pc = "make_repeat"
    /\ NextChild = ""
    /\ make_expr' =
           IF make_repeat.min_repeat.some /\ make_repeat.max_repeat.some
           THEN SetTop([Top EXCEPT
                    !.term = Some(MakeRepeatResult(make_repeat.min_repeat.val,
                                                   make_repeat.max_repeat.val,
                                                   make_repeat.old_term))])
           ELSE make_expr
    /\ make_repeat' = NoCall
    /\ pc' = "term"
    /\ UNCHANGED <<input, generate_diagram, make_rule, result>>

\* The children are exhausted: the labeled box becomes the term, or
\* unreachable!("Min and max not set") panics.
MakeRepeatReturn ==
    /\ pc = "make_repeat"
    /\ NextChild = ""
    /\ IF make_repeat.min_repeat.some /\ make_repeat.max_repeat.some
       THEN /\ make_expr' =
                   SetTop([Top EXCEPT
                       !.term = Some(MakeRepeatResult(make_repeat.min_repeat.val,
                                                      make_repeat.max_repeat.val,
                                                      make_repeat.old_term))])
            /\ make_repeat' = NoCall
            /\ pc' = "term"
       ELSE /\ pc' = "panic"
            /\ UNCHANGED <<make_expr, make_repeat>>
    /\ UNCHANGED <<input, generate_diagram, make_rule, result>>

(***************************************************************************)
(* The engine on the parse trees of the grammar.                           *)
(***************************************************************************)
Next ==
    \/ GrammarDoc
    \/ GrammarRuleLineDoc
    \/ GrammarRuleIdentifier
    \/ EndOfInput
    \/ GenerateDiagramReturn
    \/ RuleAssignmentOperator
    \/ RuleModifier
    \/ RuleOpeningBrace
    \/ RuleExpression
    \/ RuleClosingBrace
    \/ MakeRuleReturn
    \/ ExprTerm
    \/ ExprSequenceOperator
    \/ ExprChoiceOperator
    \/ MakeExprReturn
    \/ TermIdentifier
    \/ TermTerminal
    \/ TermOpeningParen
    \/ TermClosingParen
    \/ TermExpression
    \/ TermRepeatOperator
    \/ TermRepeatOnceOperator
    \/ TermOptionalOperator
    \/ TermPositivePredicate
    \/ TermNegativePredicate
    \/ TermRepeat
    \/ TermUnsupported
    \/ TermEnd
    \/ RepeatOpeningBrace
    \/ RepeatClosingBrace
    \/ RepeatNumber
    \/ RepeatComma
    \/ MakeRepeatReturn

Spec == Init /\ [][Next]_vars

(***************************************************************************)
(* The engine on parse trees that may also hold the two shapes the grammar *)
(* rules out: a term with no pairs, and a bounded-repeat node with no      *)
(* number.                                                                 *)
(***************************************************************************)
TermEmpty ==
    /\ pc = "term"
    /\ Top.term_pairs = <<>>
    /\ EndTerm

TermRepeatNoNumber ==
    \E r \in RepeatRules : RepeatNode(r, ForbiddenRepeatChildren)

NextForbidden ==
    \/ Next
    \/ TermEmpty
    \/ TermRepeatNoNumber

SpecForbidden == Init /\ [][NextForbidden]_vars

(***************************************************************************)
(* Properties.                                                             *)
(***************************************************************************)
\* The steps in which a call returns to its caller.
MakeRepeatReturned == pc = "make_repeat" /\ pc' = "term"

MakeExprReturned == pc = "make_expr" /\ Len(make_expr') = Len(make_expr) - 1

TermEnded == pc = "term" /\ pc' = "make_expr" /\ Len(make_expr') = Len(make_expr)

MakeRuleReturned == pc = "make_rule" /\ pc' = "generate_diagram"

\* The node a returning make_expr hands to its caller.
ReturnedExpr ==
    IF Len(make_expr) = 1
    THEN make_rule'.seq[Len(make_rule'.seq)]
    ELSE make_expr'[Len(make_expr) - 1].term.val

\* A digit string without its leading zeros.
RECURSIVE Canonical(_)
Canonical(s) ==
    IF Len(s) > 1 /\ s[1] = "0" THEN Canonical(SubSeq(s, 2, Len(s))) ELSE s

\* v is the number the digit string s writes.
Denotes(v, s) == v.some /\ FormatU32(v.val) = Canonical(s)

IsNumber(p) == p.rule = "number"

\* The texts of the numbers make_repeat has consumed, in order.
RepeatNumbers == SelectSeq(make_repeat.pairs, IsNumber)

\* C1: once the parser has accepted the grammar, generate_diagram never
\* panics.
C1_NeverAborts == pc # "panic"

\* C2: when make_repeat has consumed all children of a bounded-repeat node,
\* {n} has given (n, n), {n,} (n, u32::MAX), {,m} (0, m) and {n,m} (n, m).
C2_ResolvedRange ==
    (pc = "make_repeat" /\ NextChild = "") =>
        LET min == make_repeat.min_repeat
            max == make_repeat.max_repeat
            n == RepeatNumbers
            c == make_repeat.children
        IN  /\ c = RepeatChildren.repeat_exact =>
                   Denotes(min, n[1].str) /\ Denotes(max, n[1].str)
            /\ c = RepeatChildren.repeat_min =>
                   Denotes(min, n[1].str) /\ max = Some(U32_MAX)
            /\ c = RepeatChildren.repeat_max =>
                   min = Some(U32_ZERO) /\ Denotes(max, n[1].str)
            /\ c = RepeatChildren.repeat_min_max =>
                   Denotes(min, n[1].str) /\ Denotes(max, n[2].str)

C2_Witness ==
    /\ pc = "make_repeat"
    /\ NextChild = ""
    /\ make_repeat.children = RepeatChildren.repeat_min_max
    /\ make_repeat.min_repeat = Some(U32(0, 3))
    /\ make_repeat.max_repeat = Some(U32_MAX)

\* C3: the node make_repeat returns is a LabeledBox whose inner node is
\* Choice(Empty, Repeat(inner, Empty)) when the resolved minimum is 0 and
\* Repeat(inner, Empty) when it is greater.
C3_BypassIffMinZero ==
    [][MakeRepeatReturned =>
          LET box == Top'.term.val
              bypass == Choice(<<Empty, Repeat(make_repeat.old_term, Empty)>>)
              loop == Repeat(make_repeat.old_term, Empty)
          IN  /\ Top'.term.some
              /\ box.node = "LabeledBox"
              /\ box.caption.node = "Comment"
              /\ make_repeat.min_repeat.val = U32_ZERO => box.inner = bypass
              /\ make_repeat.min_repeat.val # U32_ZERO => box.inner = loop]_vars

C3_Witness ==
    /\ pc = "term"
    /\ Last(Top.term_pairs) = "repeat_max"
    /\ Top.term.some
    /\ Top.term.val.node = "LabeledBox"
    /\ Top.term.val.inner =
           Choice(<<Empty, Repeat(Terminal(TerminalTexts.range), Empty)>>)

\* The label C4 gives a specifier: the first case that matches, the maximum
\* being unbounded when no number is written after the comma.
ClaimedLabel(m) ==
    LET min == m.min_repeat.val
        max == m.max_repeat.val
    IN  IF min = max
        THEN <<"Repeat ">> \o FormatU32(min) \o <<" time(s)">>
        ELSE IF m.children = RepeatChildren.repeat_min
        THEN <<"Repeat ">> \o FormatU32(min) \o <<" or more times">>
        ELSE IF min = U32_ZERO
        THEN <<"Repeat at most ">> \o FormatU32(max) \o <<" time(s)">>
        ELSE <<"Repeat between ">> \o FormatU32(min) \o <<" and ">>
                 \o FormatU32(max) \o <<" time(s)">>

\* C4: the label is that of the first matching case; "or more times" is
\* given exactly when the specifier has no explicit maximum (and min is not
\* u32::MAX).
C4_LabelCases ==
    [][MakeRepeatReturned =>
          Top'.term.val.caption = Comment(ClaimedLabel(make_repeat))]_vars

\* Every choice of a frame holds no node.
RECURSIVE AllEmpty(_)
AllEmpty(choices) ==
    choices = <<>>
        \/ (choices[1] = <<>> /\ AllEmpty(SubSeq(choices, 2, Len(choices))))

\* C5: an expression with k choice separators yields k + 1 alternatives:
\* Empty when it has no separator and no term survived, and a Choice of
\* exactly k + 1 children when k >= 1.
C5_AlternativesCounted ==
    [][MakeExprReturned =>
          LET k == Count(Top.pairs, {"choice_operator"})
              none == AllEmpty(Top.choices) /\ Top.curr_choice = <<>>
          IN  /\ (k = 0 /\ none) => ReturnedExpr = Empty
              /\ k >= 1 => /\ ReturnedExpr.node = "Choice"
                           /\ Len(ReturnedExpr.children) = k + 1]_vars

\* C6: an expression of one term alone, the term built, returns the term's
\* node itself, to make_rule and to the term around a parenthesis alike.
C6_SingleTermUnwrapped ==
    [][(MakeExprReturned /\ Top.pairs = <<"term">> /\ Len(Top.curr_choice) = 1)
          => ReturnedExpr = Top.curr_choice[1]]_vars

\* The rules of the last n pairs handed over.
LastRules(n) ==
    IF Len(input) < n THEN <<>>
    ELSE [i \in 1..n |-> input[Len(input) - n + i].rule]

\* ((^"x")) has been read up to the outer parenthesis' expression: the term
\* is the terminal itself.
C6_Witness ==
    /\ pc = "term"
    /\ LastRules(8) = <<"opening_paren", "expression", "term", "opening_paren",
                   "expression", "term", "insensitive_string", "closing_paren">>
    /\ TermPhase(Top.term_pairs) = "close"
    /\ Top.term = Some(Terminal(TerminalTexts.insensitive_string))

\* C7: a built term goes onto curr_choice once, in a "Can't match" box when
\* its '!' are odd in number, else in a "Must match" box when its '&' are,
\* else as it is.
C7_LookaheadParity ==
    [][(TermEnded /\ Top.term.some) =>
          LET neg == Count(Top.term_pairs, {"negative_predicate_operator"})
              pos == Count(Top.term_pairs, {"positive_predicate_operator"})
              node == Top.term.val
              cc == Top'.curr_choice
          IN  /\ Len(cc) = Len(Top.curr_choice) + 1
              /\ SubSeq(cc, 1, Len(cc) - 1) = Top.curr_choice
              /\ neg % 2 = 1 =>
                     cc[Len(cc)] =
                         LabeledBox(node, Comment(<<"Lookahead: Can't match">>))
              /\ (neg % 2 = 0 /\ pos % 2 = 1) =>
                     cc[Len(cc)] =
                         LabeledBox(node, Comment(<<"Lookahead: Must match">>))
              /\ (neg % 2 = 0 /\ pos % 2 = 0) => cc[Len(cc)] = node]_vars

\* !!"x"* has been read: the alternative holds the bare zero-or-more node.
C7_Witness ==
    /\ pc = "make_expr"
    /\ LastRules(5) = <<"term", "negative_predicate_operator",
                   "negative_predicate_operator", "string", "repeat_operator">>
    /\ Top.curr_choice =
           <<Choice(<<Empty, Repeat(Terminal(TerminalTexts.string), Empty)>>)>>

IsUnsupported(p) == p.rule \in UnsupportedRules

\* One warning per unsupported pair of ps, naming its rule, in order.
WarningsFor(ps) ==
    LET u == SelectSeq(ps, IsUnsupported)
    IN  [i \in 1..Len(u) |->
            <<"### Unsupported rule in term: ", u[i].rule, " ###">>]

\* C8: a term whose primary is unsupported never holds a node, whatever
\* operators are attached to it, and leaves the alternatives of its
\* expression as they were; the warnings returned are exactly one per
\* unsupported primary, each naming it.
C8_UnsupportedSkipped ==
    [][/\ (pc' = "term" /\ Count(Top'.term_pairs, UnsupportedRules) > 0)
              => ~Top'.term.some
       /\ (TermEnded /\ Count(Top.term_pairs, UnsupportedRules) > 0)
              => /\ Top'.curr_choice = Top.curr_choice
                 /\ Top'.choices = Top.choices
       /\ pc' = "done" => result'.val.warnings = WarningsFor(input')]_vars

\* a = { "x" ~ PUSH(..)? } has been transformed.
C8_Witness ==
    /\ pc = "done"
    /\ LastRules(8) = <<"term", "string", "sequence_operator", "term", "_push",
                        "optional_operator", "closing_brace", "EOI">>
    /\ result.val.warnings = <<<<"### Unsupported rule in term: ", "_push", " ###">>>>
    /\ result.val.diagram.root.children[1].children[2] =
           Sequence(<<SimpleStart, Terminal(TerminalTexts.string), SimpleEnd>>)

\* The tag C9 gives each modifier.
ClaimedName(name, pairs) ==
    IF "silent_modifier" \in {pairs[i] : i \in 1..Len(pairs)}
    THEN name \o <<" (silent)">>
    ELSE IF "atomic_modifier" \in {pairs[i] : i \in 1..Len(pairs)}
    THEN name \o <<" (atomic)">>
    ELSE IF "compound_atomic_modifier" \in {pairs[i] : i \in 1..Len(pairs)}
    THEN name \o <<" (compound atomic)">>
    ELSE IF "non_atomic_modifier" \in {pairs[i] : i \in 1..Len(pairs)}
    THEN name \o <<" (non-atomic)">>
    ELSE name

\* C9: make_rule returns VerticalGrid(Comment(display name),
\* Sequence(SimpleStart, expression node, SimpleEnd)); the expression node
\* of a body that is one literal string is Terminal(literal).
C9_RuleGrid ==
    [][MakeRuleReturned =>
          LET nodes == generate_diagram'.nodes
              grid == nodes[Len(nodes)]
              body == grid.children[2]
          IN  /\ Len(nodes) = Len(generate_diagram.nodes) + 1
              /\ grid.node = "VerticalGrid"
              /\ Len(grid.children) = 2
              /\ grid.children[1] =
                     Comment(ClaimedName(IdentifierText, make_rule.pairs))
              /\ body.node = "Sequence"
              /\ Len(body.children) = 3
              /\ body.children[1] = SimpleStart
              /\ body.children[2] = make_rule.seq[2]
              /\ body.children[3] = SimpleEnd
              /\ LastRules(5) = <<"opening_brace", "expression", "term", "string",
                             "closing_brace">>
                     => body.children[2] = Terminal(TerminalTexts.string)]_vars

\* a = @{ "x" } has been built.
C9_Witness ==
    /\ pc = "generate_diagram"
    /\ generate_diagram.nodes =
           <<VerticalGrid(<<Comment(<<"a", " (atomic)">>),
                            Sequence(<<SimpleStart,
                                       Terminal(TerminalTexts.string),
                                       SimpleEnd>>)>>)>>

\* The pairs handed over hold a term with no pairs (i), or a bounded-repeat
\* node with no number (ii).
EmptyTermAt(i) ==
    /\ input[i].rule = "term"
    /\ i < Len(input)
    /\ input[i + 1].rule \in
           {"sequence_operator", "choice_operator", "closing_brace",
            "closing_paren"}

NoNumberAt(i) ==
    /\ input[i].rule \in RepeatRules
    /\ i + 2 <= Len(input)
    /\ input[i + 1].rule = "opening_brace"
    /\ input[i + 2].rule = "closing_brace"

====
